---- MODULE Spec2Model ----
(***************************************************************************)
(* A model of spellcheck.py: main() run from the command line, the format  *)
(* gate check_file_format(), the tokenizer/bucketer process_input() and    *)
(* the classifier SpellCheck.read_dictionary().                            *)
(*                                                                         *)
(* A text (file content, word, token) is a sequence of one-character       *)
(* strings, so that the character-level functions of the source (split,    *)
(* re.findall, lower, isdigit, sorted) are computed as the source computes *)
(* them.                                                                   *)
(***************************************************************************)
EXTENDS Integers, Sequences, FiniteSets, TLC

VARIABLES
    argv,                 \* sys.argv[1:], each item "path" or "-h"
    pc,                   \* position of main(), or how the run ended
    input_text,           \* content of the file sys.argv[1] (empty before it is opened)
    dict_text,            \* content of the file sys.argv[2] (empty before it is opened)
    processed_input,      \* SpellCheck.processed_input: first character -> set of tokens
    processed_dictionary, \* SpellCheck.processed_dictionary
    shared_keys,          \* read_dictionary: sorted list of keys in both maps
    alpha_missing_keys,   \* read_dictionary: sorted non-digit keys only in the input map
    key_idx,              \* index of the key the running for loop is at
    visited,              \* words of the current bucket the inner loop has already yielded
    incorrect_words,      \* read_dictionary: the list appended to (also the print order)
    tests,                \* token -> number of "words not in dictionary bucket" tests run
    result                \* what read_dictionary returned (empty before it returns)

vars == <<argv, pc, input_text, dict_text, processed_input, processed_dictionary,
          shared_keys, alpha_missing_keys, key_idx, visited, incorrect_words,
          tests, result>>

----------------------------------------------------------------------------
(* Bounds of the model *)

\* most command-line arguments after the script name
MaxArgs == 4
\* most whitespace-delimited words in the input file
MaxInputWords == 2
\* most whitespace-delimited words in the dictionary file
MaxDictWords == 2

----------------------------------------------------------------------------
(* Characters *)

Digits == {"1", "2", "3"}
LowerLetters == {"a", "b", "c"}
UpperLetters == {"A", "B", "C"}
Whitespace == {" ", "\n"}

\* the class \w of the regular expression (ASCII): letters, digits, underscore
IsWordChar(c) == c \in Digits \cup LowerLetters \cup UpperLetters \cup {"_"}

\* ASCII code points, the order Python compares characters by
Ord(c) ==
    CASE c = "\n" -> 10 [] c = " " -> 32 [] c = "." -> 46
      [] c = "1" -> 49 [] c = "2" -> 50 [] c = "3" -> 51
      [] c = "A" -> 65 [] c = "B" -> 66 [] c = "C" -> 67
      [] c = "_" -> 95
      [] c = "a" -> 97 [] c = "b" -> 98 [] c = "c" -> 99

\* str.lower() on one character
LowerChar(c) ==
    CASE c = "A" -> "a" [] c = "B" -> "b" [] c = "C" -> "c" [] OTHER -> c

\* a lower() that leaves the word as it is
lower_unchanged(word) == word

\* str.lower()
lower(word) == [i \in 1..Len(word) |-> LowerChar(word[i])]

\* str.isdigit(): non-empty and every character a digit
isdigit(s) == Len(s) > 0 /\ \A i \in 1..Len(s) : s[i] \in Digits

\* Python's < on str: lexicographic by code point, a proper prefix is smaller
RECURSIVE StrLess(_, _)
StrLess(a, b) ==
    IF b = <<>> THEN FALSE
    ELSE IF a = <<>> THEN TRUE
    ELSE IF Head(a) # Head(b) THEN Ord(Head(a)) < Ord(Head(b))
    ELSE StrLess(Tail(a), Tail(b))

\* insertion of w into an ascending list, after the elements not greater than it
RECURSIVE InsertSorted(_, _)
InsertSorted(w, list) ==
    IF list = <<>> THEN <<w>>
    ELSE IF StrLess(w, Head(list)) THEN <<w>> \o list
    ELSE <<Head(list)>> \o InsertSorted(w, Tail(list))

\* sorted(list) on a list of str
RECURSIVE sorted(_)
sorted(list) ==
    IF list = <<>> THEN <<>>
    ELSE InsertSorted(list[Len(list)], sorted(SubSeq(list, 1, Len(list) - 1)))

\* sorted(S) on a set of str
RECURSIVE sorted_set(_)
sorted_set(S) ==
    IF S = {} THEN <<>>
    ELSE LET w == CHOOSE x \in S : TRUE IN InsertSorted(w, sorted_set(S \ {w}))

----------------------------------------------------------------------------
(* Reading text *)

\* str.split() of one line: the maximal runs of non-whitespace characters
RECURSIVE SplitFrom(_, _, _)
SplitFrom(text, i, cur) ==
    IF i > Len(text) THEN (IF cur = <<>> THEN <<>> ELSE <<cur>>)
    ELSE IF text[i] \in Whitespace
         THEN (IF cur = <<>> THEN <<>> ELSE <<cur>>) \o SplitFrom(text, i + 1, <<>>)
         ELSE SplitFrom(text, i + 1, Append(cur, text[i]))

split(line) == SplitFrom(line, 1, <<>>)

\* "for line in file": the lines of a text, each ended by its "\n" except
\* possibly the last; an empty text has no line
RECURSIVE LinesFrom(_, _, _)
LinesFrom(text, i, cur) ==
    IF i > Len(text) THEN (IF cur = <<>> THEN <<>> ELSE <<cur>>)
    ELSE IF text[i] = "\n"
         THEN <<Append(cur, "\n")>> \o LinesFrom(text, i + 1, <<>>)
         ELSE LinesFrom(text, i + 1, Append(cur, text[i]))

lines_of(text) == LinesFrom(text, 1, <<>>)

\* re.findall(r'\w+', text): the maximal runs of word characters
RECURSIVE FindAllFrom(_, _, _)
FindAllFrom(text, i, cur) ==
    IF i > Len(text) THEN (IF cur = <<>> THEN <<>> ELSE <<cur>>)
    ELSE IF IsWordChar(text[i])
         THEN FindAllFrom(text, i + 1, Append(cur, text[i]))
         ELSE (IF cur = <<>> THEN <<>> ELSE <<cur>>) \o FindAllFrom(text, i + 1, <<>>)

findall(text) == FindAllFrom(text, 1, <<>>)

----------------------------------------------------------------------------
(* ProcessFiles *)

\* line.strip('\n'): the line without its leading and trailing "\n"
RECURSIVE strip_newlines(_)
strip_newlines(line) ==
    IF line = <<>> THEN line
    ELSE IF Head(line) = "\n" THEN strip_newlines(Tail(line))
    ELSE IF line[Len(line)] = "\n" THEN strip_newlines(SubSeq(line, 1, Len(line) - 1))
    ELSE line

\* number_of_lines after the loop of check_file_format
number_of_lines(text) == Len(lines_of(text))

\* number_of_words after the loop of check_file_format
RECURSIVE CountWords(_)
CountWords(lines) ==
    IF lines = <<>> THEN 0
    ELSE Len(split(strip_newlines(Head(lines)))) + CountWords(Tail(lines))

number_of_words(text) == CountWords(lines_of(text))

\* check_file_format(): the operands <<number_of_lines, number_of_words>> of
\* the true division it returns the quotient of
check_file_format(text) == <<number_of_lines(text), number_of_words(text)>>

\* the division raises ZeroDivisionError: the text has no word
DivisionRaises(q) == q[2] = 0

\* "quotient == 1" on the true division of two integers
QuotientIsOne(q) == q[1] = q[2]

\* an empty Python dict
EmptyDict == [k \in {} |-> {}]

\* a loop that starts the bucket of a key afresh at every word
RECURSIVE AddWordsFresh(_, _)
AddWordsFresh(sorted_input_dictionary, word_list) ==
    IF word_list = <<>> THEN sorted_input_dictionary
    ELSE LET word == Head(word_list)
             key == SubSeq(word, 1, 1)
         IN  AddWordsFresh(IF key \notin DOMAIN sorted_input_dictionary
                           THEN sorted_input_dictionary @@ (key :> {word})
                           ELSE [sorted_input_dictionary EXCEPT ![key] = {word}],
                           Tail(word_list))

\* the for loop of process_input over word_list
RECURSIVE AddWords(_, _)
AddWords(sorted_input_dictionary, word_list) ==
    IF word_list = <<>> THEN sorted_input_dictionary
    ELSE LET word == Head(word_list)
             key == SubSeq(word, 1, 1)
         IN  AddWords(IF key \notin DOMAIN sorted_input_dictionary
                      THEN sorted_input_dictionary @@ (key :> {word})
                      ELSE [sorted_input_dictionary EXCEPT ![key] = @ \cup {word}],
                      Tail(word_list))

\* word_list of process_input: the tokens of the text, lowercased
word_list_of(text) == LET found == findall(text) IN [i \in 1..Len(found) |-> lower(found[i])]

\* process_input()
process_input(text) == AddWords(EmptyDict, word_list_of(text))

----------------------------------------------------------------------------
(* The files the model runs on *)

\* whitespace-delimited words an input file is made of
InputWords == {<<"A", "b">>, <<"a", "c">>, <<"1", "a">>, <<"1", "2">>, <<".">>}

\* whitespace-delimited words a dictionary file is made of
DictWords == {<<"a", "B">>, <<"1", "3">>, <<".">>}

\* a word followed by a blank or by a newline
Chunks(words) == {w \o <<s>> : w \in words, s \in Whitespace}

\* the texts of at most n words
RECURSIVE Texts(_, _)
Texts(words, n) ==
    IF n = 0 THEN {<<>>}
    ELSE LET shorter == Texts(words, n - 1)
         IN  shorter \cup {t \o c : t \in shorter, c \in Chunks(words)}

InputFiles == Texts(InputWords, MaxInputWords)
DictFiles == Texts(DictWords, MaxDictWords)

\* command lines: up to MaxArgs arguments, each a file path or the flag -h
RECURSIVE ArgLists(_)
ArgLists(n) ==
    IF n = 0 THEN {<<>>}
    ELSE LET shorter == ArgLists(n - 1)
         IN  shorter \cup {Append(a, x) : a \in shorter, x \in {"path", "-h"}}

----------------------------------------------------------------------------
(* main() *)

EmptyTests == [w \in {} |-> 0]

Init ==
    /\ argv \in ArgLists(MaxArgs)
    /\ pc = "main"
    /\ input_text = <<>>
    /\ dict_text = <<>>
    /\ processed_input = EmptyDict
    /\ processed_dictionary = EmptyDict
    /\ shared_keys = <<>>
    /\ alpha_missing_keys = <<>>
    /\ key_idx = 0
    /\ visited = {}
    /\ incorrect_words = <<>>
    /\ tests = EmptyTests
    /\ result = <<>>

\* len(sys.argv): the script name and the arguments
len_sys_argv == Len(argv) + 1

\* where main() goes from its first lines: command_line_help(), then the
\* checks of len(sys.argv) and the two ProcessFiles(sys.argv[i])
ArgumentBranch ==
    IF \E i \in 1..Len(argv) : argv[i] = "-h" THEN "exit_help"
    ELSE IF len_sys_argv <= 1 THEN "exit_no_arguments"
    ELSE IF len_sys_argv > 3 THEN "exit_too_many_arguments"
    ELSE IF len_sys_argv <= 2 THEN "IndexError"
    ELSE "check_input_format"

MainArguments ==
    /\ pc = "main"
    /\ pc' = ArgumentBranch
    /\ UNCHANGED <<argv, input_text, dict_text, processed_input, processed_dictionary,
                   shared_keys, alpha_missing_keys, key_idx, visited, incorrect_words,
                   tests, result>>

\* a gate that wants the quotient 1 of the input file as well
InputFormatAcceptedAtOne(quotient) == QuotientIsOne(quotient)

\* the first operand of the condition of the if: check_file_format() != 1
InputFormatAccepted(quotient) == ~QuotientIsOne(quotient)

\* the second operand: check_file_format() == 1
DictFormatAccepted(quotient) == QuotientIsOne(quotient)

\* input_processing.check_file_format() != 1, the left operand of "and"
CheckInputFormat ==
    /\ pc = "check_input_format"
    /\ \E text \in InputFiles :
         /\ input_text' = text
         /\ pc' = IF DivisionRaises(check_file_format(text)) THEN "ZeroDivisionError"
                  ELSE IF InputFormatAccepted(check_file_format(text))
                       THEN "check_dict_format"
                       ELSE "exit_bad_format"
    /\ UNCHANGED <<argv, dict_text, processed_input, processed_dictionary,
                   shared_keys, alpha_missing_keys, key_idx, visited, incorrect_words,
                   tests, result>>

\* dictionary_processing.check_file_format() == 1, the right operand of "and"
CheckDictFormat ==
    /\ pc = "check_dict_format"
    /\ \E text \in DictFiles :
         /\ dict_text' = text
         /\ pc' = IF DivisionRaises(check_file_format(text)) THEN "ZeroDivisionError"
                  ELSE IF DictFormatAccepted(check_file_format(text))
                       THEN "process_input"
                       ELSE "exit_bad_format"
    /\ UNCHANGED <<argv, input_text, processed_input, processed_dictionary,
                   shared_keys, alpha_missing_keys, key_idx, visited, incorrect_words,
                   tests, result>>

\* the two calls of process_input() and SpellCheck(processed_input, processed_dictionary)
ProcessInput ==
    /\ pc = "process_input"
    /\ processed_input' = process_input(input_text)
    /\ processed_dictionary' = process_input(dict_text)
    /\ pc' = "read_dictionary"
    /\ UNCHANGED <<argv, input_text, dict_text, shared_keys, alpha_missing_keys,
                   key_idx, visited, incorrect_words, tests, result>>

----------------------------------------------------------------------------
(* SpellCheck.read_dictionary() *)

\* sorted(set(processed_input.keys()).intersection(processed_dictionary.keys()))
shared_keys_of(input, dictionary) ==
    sorted_set(DOMAIN input \cap DOMAIN dictionary)

\* sorted(set(processed_input.keys()) - set(processed_dictionary.keys()))
missing_keys_of(input, dictionary) ==
    sorted_set(DOMAIN input \ DOMAIN dictionary)

\* [key for key in missing_keys if not(key.isdigit())]
alpha_missing_keys_of(missing_keys) ==
    SelectSeq(missing_keys, LAMBDA key : ~isdigit(key))

\* the lines before the loops
ReadDictionaryStart ==
    /\ pc = "read_dictionary"
    /\ shared_keys' = shared_keys_of(processed_input, processed_dictionary)
    /\ alpha_missing_keys' =
           alpha_missing_keys_of(missing_keys_of(processed_input, processed_dictionary))
    /\ incorrect_words' = <<>>
    /\ key_idx' = 1
    /\ visited' = {}
    /\ pc' = "shared_loop"
    /\ UNCHANGED <<argv, input_text, dict_text, processed_input, processed_dictionary,
                   tests, result>>

\* one more "words not in ..." test of the token
Tested(counts, words) ==
    IF words \in DOMAIN counts THEN [counts EXCEPT ![words] = @ + 1]
    ELSE counts @@ (words :> 1)

\* the words the inner for loop has still to yield from a bucket
Remaining(bucket, seen) == bucket \ seen

\* the test of the wrong collection: "words not in self.processed_dictionary"
is_unknown_in_keys(words, keys, dictionary) == words \notin DOMAIN dictionary

\* "words not in self.processed_dictionary[keys]"
is_unknown(words, keys, dictionary) == words \notin dictionary[keys]

\* the body of the inner loop under "for keys in shared_keys": one membership
\* test, and the append when it says the word is not in the bucket
shared_body(words, keys, counts, list) ==
    [tests |-> Tested(counts, words),
     incorrect_words |-> IF is_unknown(words, keys, processed_dictionary)
                         THEN Append(list, words)
                         ELSE list]

\* a body of the second loop that tests the word against the dictionary too
missing_body_tested(words, counts, list) ==
    [tests |-> Tested(counts, words), incorrect_words |-> Append(list, words)]

\* the body of the inner loop under "for key in alpha_missing_keys": the
\* append, without a membership test
missing_body(words, counts, list) ==
    [tests |-> counts, incorrect_words |-> Append(list, words)]

\* one pass of the body of "for words in self.processed_input[keys]" under
\* "for keys in shared_keys"; a set yields its elements in any order
SharedLoopBody ==
    /\ pc = "shared_loop"
    /\ key_idx <= Len(shared_keys)
    /\ LET keys == shared_keys[key_idx]
           left == Remaining(processed_input[keys], visited)
       IN  \E words \in left :
             /\ tests' = shared_body(words, keys, tests, incorrect_words).tests
             /\ incorrect_words' =
                    shared_body(words, keys, tests, incorrect_words).incorrect_words
             /\ IF left = {words}
                THEN key_idx' = key_idx + 1 /\ visited' = {}
                ELSE key_idx' = key_idx /\ visited' = visited \cup {words}
    /\ UNCHANGED <<argv, pc, input_text, dict_text, processed_input,
                   processed_dictionary, shared_keys, alpha_missing_keys, result>>

\* the first loop is over, the second begins
SharedLoopEnd ==
    /\ pc = "shared_loop"
    /\ key_idx > Len(shared_keys)
    /\ pc' = "missing_loop"
    /\ key_idx' = 1
    /\ visited' = {}
    /\ UNCHANGED <<argv, input_text, dict_text, processed_input, processed_dictionary,
                   shared_keys, alpha_missing_keys, incorrect_words, tests, result>>

\* one pass of the body of "for words in self.processed_input[key]" under
\* "for key in alpha_missing_keys"
MissingLoopBody ==
    /\ pc = "missing_loop"
    /\ key_idx <= Len(alpha_missing_keys)
    /\ LET key == alpha_missing_keys[key_idx]
           left == Remaining(processed_input[key], visited)
       IN  \E words \in left :
             /\ tests' = missing_body(words, tests, incorrect_words).tests
             /\ incorrect_words' = missing_body(words, tests, incorrect_words).incorrect_words
             /\ IF left = {words}
                THEN key_idx' = key_idx + 1 /\ visited' = {}
                ELSE key_idx' = key_idx /\ visited' = visited \cup {words}
    /\ UNCHANGED <<argv, pc, input_text, dict_text, processed_input,
                   processed_dictionary, shared_keys, alpha_missing_keys, result>>

\* a return of the list as the loops left it
returned_unsorted(words) == words

\* what read_dictionary returns
returned(words) == sorted(words)

\* return sorted(incorrect_words), and main() prints the time taken
ReadDictionaryReturn ==
    /\ pc = "missing_loop"
    /\ key_idx > Len(alpha_missing_keys)
    /\ result' = returned(incorrect_words)
    /\ pc' = "done"
    /\ UNCHANGED <<argv, input_text, dict_text, processed_input, processed_dictionary,
                   shared_keys, alpha_missing_keys, key_idx, visited, incorrect_words,
                   tests>>

Next ==
    \/ MainArguments
    \/ CheckInputFormat
    \/ CheckDictFormat
    \/ ProcessInput
    \/ ReadDictionaryStart
    \/ SharedLoopBody
    \/ SharedLoopEnd
    \/ MissingLoopBody
    \/ ReadDictionaryReturn

Spec == Init /\ [][Next]_vars

----------------------------------------------------------------------------
(* What the properties below speak of *)

Range(list) == {list[i] : i \in 1..Len(list)}

\* the distinct lowercase tokens of the two files
InputTokens == Range(word_list_of(input_text))
DictTokens == Range(word_list_of(dict_text))

\* the tokens of the two files as written, before lower()
RawInputTokens == Range(findall(input_text))
RawDictTokens == Range(findall(dict_text))

\* the token matches ^[0-9]+$
PurelyNumeric(token) == Len(token) > 0 /\ \A i \in 1..Len(token) : token[i] \in Digits

\* an upper-case letter and its lower-case letter
CasePairs == {<<"A", "a">>, <<"B", "b">>, <<"C", "c">>}

\* the two words are equal up to the case of their letters
SameButCase(a, b) ==
    /\ Len(a) = Len(b)
    /\ \A i \in 1..Len(a) :
         a[i] = b[i] \/ <<a[i], b[i]>> \in CasePairs \/ <<b[i], a[i]>> \in CasePairs

NoUpperCase(token) == \A i \in 1..Len(token) : token[i] \notin UpperLetters

\* some token of the dictionary begins with the first character of the token
KeyIn(dictionary, token) == \E d \in dictionary : d[1] = token[1]

\* the input tokens the two loops report, told from the two token sets alone
ReportedOf(input, dictionary) ==
    {w \in input : KeyIn(dictionary, w) /\ w \notin dictionary}
        \cup {w \in input : ~KeyIn(dictionary, w) /\ w[1] \notin Digits}

ReportedSet == ReportedOf(InputTokens, DictTokens)

\* the bucket map of a set of tokens
BucketsOfSet(tokens) ==
    [key \in {SubSeq(w, 1, 1) : w \in tokens} |-> {w \in tokens : SubSeq(w, 1, 1) = key}]

\* the number of membership tests run on the token so far
TestCount(token) == IF token \in DOMAIN tests THEN tests[token] ELSE 0

\* main() has read the input file
InputRead ==
    pc \in {"check_dict_format", "process_input", "read_dictionary", "shared_loop",
            "missing_loop", "done", "exit_bad_format", "ZeroDivisionError"}

\* read_dictionary() has returned
Classified == pc = "done"

\* the run is over after main() read the input file
Ended == pc \in {"done", "exit_bad_format", "ZeroDivisionError"}

----------------------------------------------------------------------------
(* Properties *)

\* C1: every token appended to incorrect_words, and every token of the list
\* read_dictionary returns, is a token of the input that is not a token of the
\* dictionary.
C1_Soundness ==
    LET reported == Range(incorrect_words) \cup (IF Classified THEN Range(result) ELSE {})
    IN  reported # {} =>
            LET input == InputTokens
                dictionary == DictTokens
            IN  \A w \in reported : w \in input /\ w \notin dictionary

\* a run that reports some token and leaves out an input token of the dictionary
C1_Witness ==
    /\ Classified
    /\ result # <<>>
    /\ InputTokens \cap DictTokens # {}

\* C2 (as claimed): every input token that is not purely numeric and is not in
\* the dictionary is in the returned list.
C2_Completeness ==
    Classified =>
        LET dictionary == DictTokens
        IN  \A w \in InputTokens :
                (~PurelyNumeric(w) /\ w \notin dictionary) => w \in Range(result)

\* C3 (as claimed): no purely numeric token is in the returned list.
C3_NumericExclusion ==
    Classified => \A w \in Range(result) : ~PurelyNumeric(w)

\* C4: the returned list is strictly ascending by token value and holds
\* exactly the tokens the two token sets decide, in whatever order the
\* buckets were iterated.
C4_SortedResult ==
    Classified =>
        /\ \A i \in 1..(Len(result) - 1) : StrLess(result[i], result[i + 1])
        /\ Range(result) = ReportedSet

\* a run whose loops met the tokens in another order than the sorted one
C4_Witness ==
    /\ Classified
    /\ Len(result) >= 2
    /\ incorrect_words # result

\* C5 (as claimed): exactly one membership test for each distinct input token.
C5_ExactlyOneTest ==
    Classified => \A w \in InputTokens : TestCount(w) = 1

\* C5 (amended): never more than one membership test for a token; at the
\* return exactly one for each distinct input token whose first character
\* begins some dictionary token, and none for the other input tokens.
C5_AtMostOneTest ==
    /\ DOMAIN tests # {} =>
           LET input == InputTokens
           IN  \A w \in DOMAIN tests : tests[w] = 1 /\ w \in input
    /\ Classified =>
           LET dictionary == DictTokens
           IN  \A w \in InputTokens :
                   TestCount(w) = IF KeyIn(dictionary, w) THEN 1 ELSE 0

\* a classified input text with a token written twice, tested once
C5_Witness ==
    /\ Classified
    /\ LET word_list == word_list_of(input_text)
       IN  \E i, j \in 1..Len(word_list) :
             i < j /\ word_list[i] = word_list[j] /\ TestCount(word_list[i]) = 1

\* C6 (as claimed): a run on an empty input text ends with read_dictionary
\* having returned the empty list.
C6_EmptyInputCompletes ==
    (Ended /\ input_text = <<>>) => (pc = "done" /\ result = <<>>)

\* C7 (as claimed): main rejects the files only when the quotient of one of
\* them is not 1.
C7_RejectsOnlyOffOne ==
    pc = "exit_bad_format" =>
        \/ number_of_lines(input_text) # number_of_words(input_text)
        \/ /\ number_of_words(dict_text) > 0
           /\ number_of_lines(dict_text) # number_of_words(dict_text)

\* C7 (amended): main goes on to process_input and read_dictionary exactly
\* when the input file has words and not as many lines as words and the
\* dictionary file has words and as many lines as words; it rejects the files
\* when the input file has as many lines as words (the dictionary is not
\* looked at) or the dictionary file has words and not as many lines; a file
\* without words ends the run in ZeroDivisionError.
C7_FormatGate ==
    pc \in {"check_dict_format", "process_input", "exit_bad_format", "ZeroDivisionError"} =>
    LET il == number_of_lines(input_text)
        iw == number_of_words(input_text)
        dl == number_of_lines(dict_text)
        dw == number_of_words(dict_text)
    IN  /\ pc = "check_dict_format" => (iw > 0 /\ il # iw)
        /\ pc = "process_input" => (iw > 0 /\ il # iw /\ dw > 0 /\ dl = dw)
        /\ pc = "exit_bad_format" =>
               \/ iw > 0 /\ il = iw /\ dict_text = <<>>
               \/ iw > 0 /\ il # iw /\ dw > 0 /\ dl # dw
        /\ pc = "ZeroDivisionError" =>
               \/ iw = 0 /\ dict_text = <<>>
               \/ iw > 0 /\ il # iw /\ dw = 0

\* a rejected input file with as many lines as words
C7_Witness ==
    /\ pc = "exit_bad_format"
    /\ number_of_words(input_text) > 0
    /\ number_of_lines(input_text) = number_of_words(input_text)

\* C8: no token of a bucket, of incorrect_words or of the returned list has an
\* upper-case letter, and an input word equal to a dictionary word up to
\* letter case is not in the returned list in any case.
C8_CaseNormalization ==
    /\ \A key \in DOMAIN processed_input :
         NoUpperCase(key) /\ \A w \in processed_input[key] : NoUpperCase(w)
    /\ \A key \in DOMAIN processed_dictionary :
         NoUpperCase(key) /\ \A w \in processed_dictionary[key] : NoUpperCase(w)
    /\ \A w \in Range(incorrect_words) \cup Range(result) : NoUpperCase(w)
    /\ (Classified /\ result # <<>>) =>
           LET written == RawDictTokens
           IN  \A w \in RawInputTokens, d \in written :
                   SameButCase(w, d) => \A r \in Range(result) : ~SameButCase(r, w)

\* a classified input word that differs from a dictionary word in case only
C8_Witness ==
    /\ Classified
    /\ \E w \in RawInputTokens, d \in RawDictTokens : w # d /\ SameButCase(w, d)

\* C9: when both calls of process_input have returned, and still when
\* read_dictionary has, the bucket map of a text is the bucket map of its set
\* of distinct lowercase tokens, each token in the one bucket keyed by its
\* first character, and the returned list has exactly the tokens the two sets
\* decide.
C9_BucketsFromSet ==
    (pc = "read_dictionary" \/ Classified) =>
        LET input == InputTokens
            dictionary == DictTokens
            reported == ReportedOf(input, dictionary)
        IN  /\ processed_input = BucketsOfSet(input)
            /\ processed_dictionary = BucketsOfSet(dictionary)
            /\ \A w \in input : \A key \in DOMAIN processed_input :
                   (w \in processed_input[key]) <=> (key = <<w[1]>>)
            /\ Classified =>
                   /\ Len(result) = Cardinality(reported)
                   /\ Range(result) = reported

\* a classified input text that writes a token more than once
C9_Witness ==
    /\ Classified
    /\ Len(word_list_of(input_text)) > Cardinality(InputTokens)

\* C10 (as claimed): with any number of arguments but two, main prints a
\* message and exits before it makes a ProcessFiles or raises.
C10_WrongCountExits ==
    Len(argv) # 2 =>
        pc \in {"main", "exit_help", "exit_no_arguments", "exit_too_many_arguments"}

====
